---------------------------- MODULE Spec2Model ----------------------------
(***************************************************************************)
(* A model of bgzip_utils.pyx: the BGZF block framing (read_block,         *)
(* compress_block), the single-block codec (inflate_block), the batch      *)
(* planners and the parallel executors of decompress_into,                 *)
(* decompress_into_2, compress_chunks and compress_to_stream.              *)
(*                                                                         *)
(* Representation.                                                         *)
(*  - A compressed stream is a sequence of bytes (0..255).                 *)
(*  - Inflated data is a sequence of runs [b |-> byte, n |-> count > 0],   *)
(*    adjacent runs holding different bytes, so that windows of 65280      *)
(*    bytes keep their real size.  Memory that was allocated but never     *)
(*    written holds the byte value Uninit.                                 *)
(*  - An unsigned 32-bit C integer is a pair <<hi, lo>> of 16-bit halves   *)
(*    (the model checker's integers are 32-bit signed), with wrap-around   *)
(*    addition and subtraction.                                            *)
(*  - zlib is outside the repository.  deflate/inflate are modelled by a   *)
(*    run-length token code with the properties the code relies on:        *)
(*    inflate(deflate(d)) = d, deflate(<<>>) is the two bytes 03 00,       *)
(*    damaged input ends in an error or in different output, and output    *)
(*    is bounded by avail_out only.  crc32 is a 32-bit checksum over the   *)
(*    runs with crc32(<<>>) = 0.                                           *)
(*                                                                         *)
(* Specifications.                                                         *)
(*  - Spec: compress_to_stream, then a reader that feeds decompress_into   *)
(*    or decompress_into_2 chunk after chunk, on bytes.                    *)
(*  - SpecSize: compress_chunks and compress_to_stream on lengths only,    *)
(*    for chunks of any content and size.                                  *)
(***************************************************************************)
EXTENDS Integers, Sequences, FiniteSets, TLC

\* ------------------------------------------------------------------------
\* Program constants
\* ------------------------------------------------------------------------
NUMBER_OF_BLOCKS == 20000
MAGIC_LENGTH == 4

BGZIP_CRC_MISMATCH == -8
BGZIP_ZLIB_INITIALIZATION_ERROR == -7
BGZIP_BLOCK_SIZE_MISMATCH == -6
BGZIP_BLOCK_SIZE_NEGATIVE == -5
BGZIP_ZLIB_ERROR == -4
BGZIP_MALFORMED_HEADER == -3
BGZIP_INSUFFICIENT_BYTES == -2
BGZIP_ERROR == -1
BGZIP_OK == 0

Z_OK == 0
Z_STREAM_END == 1
Z_BUF_ERROR == -5
Z_DATA_ERROR == -3

MAGIC == <<31, 139, 8, 4>>

sizeof_BlockHeader == 12
sizeof_BlockHeaderSubfield == 4
sizeof_BlockHeaderBGZipSubfield == 6
sizeof_BlockTailer == 8
sizeof_length == 2

block_data_inflated_size == 65280
block_metadata_size ==
    sizeof_BlockHeader + sizeof_BlockHeaderBGZipSubfield + sizeof_BlockTailer

\* zst.avail_out of inflate_block and of compress_block
zst_avail_out == 1024 * 1024

\* The value of a byte of memory that was allocated and never written.
Uninit == 256

\* ------------------------------------------------------------------------
\* Unsigned C integers
\* ------------------------------------------------------------------------
W16 == 65536

\* unsigned short: truncation of a non-negative value
U16(n) == n % W16

\* unsigned int, as <<hi, lo>>
U32(n) == <<(n \div W16) % W16, n % W16>>

U32Zero == <<0, 0>>

\* the value of an unsigned int that is below 2^31
U32Val(a) == a[1] * W16 + a[2]

U32Fits(a) == a[1] < 32768

U32Lt(a, b) == a[1] < b[1] \/ (a[1] = b[1] /\ a[2] < b[2])

U32Add(a, b) ==
    LET lo == a[2] + b[2]
    IN  <<(a[1] + b[1] + (lo \div W16)) % W16, lo % W16>>

U32Sub(a, b) ==
    LET lo == a[2] - b[2]
        borrow == IF lo < 0 THEN 1 ELSE 0
    IN  <<(a[1] - b[1] - borrow + 2 * W16) % W16, (lo + W16) % W16>>

\* a C int holding the bits of an unsigned int is negative
IsNegative32(a) == a[1] >= 32768

\* ------------------------------------------------------------------------
\* Little-endian fields of a byte sequence; p is a 0-based offset
\* ------------------------------------------------------------------------
LE16(n) == <<n % 256, (n \div 256) % 256>>

LE32(a) == LE16(a[2]) \o LE16(a[1])

GetU16(s, p) == s[p + 1] + 256 * s[p + 2]

GetU32(s, p) == <<GetU16(s, p + 2), GetU16(s, p)>>

Slice(s, p, len) == SubSeq(s, p + 1, p + len)

\* ------------------------------------------------------------------------
\* Inflated data: runs
\* ------------------------------------------------------------------------
Run(b, n) == IF n = 0 THEN <<>> ELSE <<[b |-> b, n |-> n]>>

RECURSIVE DLen(_)
DLen(d) == IF d = <<>> THEN 0 ELSE d[1].n + DLen(Tail(d))

DCat(x, y) ==
    IF x = <<>> THEN y
    ELSE IF y = <<>> THEN x
    ELSE IF x[Len(x)].b = y[1].b
         THEN SubSeq(x, 1, Len(x) - 1)
              \o <<[b |-> y[1].b, n |-> x[Len(x)].n + y[1].n]>>
              \o Tail(y)
         ELSE x \o y

RECURSIVE DTake(_, _)
DTake(d, k) ==
    IF k <= 0 \/ d = <<>> THEN <<>>
    ELSE IF d[1].n >= k THEN <<[b |-> d[1].b, n |-> k]>>
    ELSE <<d[1]>> \o DTake(Tail(d), k - d[1].n)

RECURSIVE DDrop(_, _)
DDrop(d, k) ==
    IF k <= 0 \/ d = <<>> THEN d
    ELSE IF d[1].n > k THEN <<[b |-> d[1].b, n |-> d[1].n - k]>> \o Tail(d)
    ELSE DDrop(Tail(d), k - d[1].n)

DSub(d, off, len) == DTake(DDrop(d, off), len)

Min(a, b) == IF a < b THEN a ELSE b

\* memory d after w is stored at offset off; what does not fit in d is lost
DWrite(d, off, w) ==
    LET room == IF DLen(d) > off THEN DLen(d) - off ELSE 0
        ww == DTake(w, room)
    IN  IF ww = <<>> THEN d
        ELSE DCat(DCat(DTake(d, off), ww), DDrop(d, off + DLen(ww)))

\* ------------------------------------------------------------------------
\* zlib
\* ------------------------------------------------------------------------
\* crc32(0, data, len)
RECURSIVE crc32_from(_, _)
crc32_from(c, d) ==
    IF d = <<>> THEN c
    ELSE crc32_from(
            << (c[1] * 37 + (d[1].b + 3) * 11 + (d[1].n \div W16) + c[2]) % W16,
               (c[2] * 31 + (d[1].b + 1) * 7 + (d[1].n % W16)) % W16 >>,
            Tail(d))

crc32(d) == crc32_from(U32Zero, d)

\* deflate(Z_FINISH) of raw data d: one token 01 <byte> <count LE32> per run,
\* then the end-of-stream token 03 00.
deflate(d) ==
    [i \in 1..(6 * Len(d) + 2) |->
        IF i > 6 * Len(d)
        THEN (IF i = 6 * Len(d) + 1 THEN 3 ELSE 0)
        ELSE LET r == d[((i - 1) \div 6) + 1]
                 k == (i - 1) % 6
             IN  IF k = 0 THEN 1
                 ELSE IF k = 1 THEN r.b
                 ELSE LE32(U32(r.n))[k - 1]]

\* inflate(Z_FINISH) of payload p into avail_out bytes of room: the return
\* code and what was stored at next_out (also when the call fails).
RECURSIVE inflate_from(_, _, _, _)
inflate_from(p, i, out, avail_out) ==
    IF i > Len(p) THEN [err |-> Z_BUF_ERROR, out |-> out]
    ELSE IF p[i] = 3
    THEN (IF i + 1 > Len(p) THEN [err |-> Z_BUF_ERROR, out |-> out]
          ELSE IF p[i + 1] = 0 THEN [err |-> Z_STREAM_END, out |-> out]
          ELSE [err |-> Z_DATA_ERROR, out |-> out])
    ELSE IF p[i] = 1
    THEN (IF i + 5 > Len(p) THEN [err |-> Z_BUF_ERROR, out |-> out]
          ELSE LET n == GetU32(p, i + 1)
                   room == avail_out - DLen(out)
               IN  IF U32Lt(U32(room), n)
                   THEN [err |-> Z_BUF_ERROR,
                         out |-> DCat(out, Run(p[i + 1], room))]
                   ELSE inflate_from(p, i + 6,
                                     DCat(out, Run(p[i + 1], U32Val(n))),
                                     avail_out))
    ELSE [err |-> Z_DATA_ERROR, out |-> out]

inflate(p, avail_out) == inflate_from(p, 1, <<>>, avail_out)


\* ------------------------------------------------------------------------
\* Block framing: parsing
\* ------------------------------------------------------------------------
\* A BGZipStream: next_in is an offset into the source, available_in the
\* number of bytes from there to its end.
BGZipStream(src_buff) == [next_in |-> 0, available_in |-> Len(src_buff)]

\* A Block whose fields were not assigned yet.
NoBlock ==
    [deflated_size |-> U32Zero, inflated_size |-> U32Zero, crc |-> U32Zero,
     block_size |-> 0, next_in |-> 0, available_in |-> 0,
     next_out |-> 0, avail_out |-> 0]

\* member_size is an unsigned int
ref_and_advance(rb, member_size) ==
    IF U32Lt(U32(rb.available_in), member_size)
    THEN [err |-> BGZIP_INSUFFICIENT_BYTES, ref |-> 0, rb |-> rb]
    ELSE [err |-> BGZIP_OK, ref |-> rb.next_in,
          rb |-> [next_in |-> rb.next_in + U32Val(member_size),
                  available_in |-> rb.available_in - U32Val(member_size)]]

\* a fault: only the first byte of the magic is compared
magic_ok_first_byte(s, head) == s[head + 1] = MAGIC[1]

magic_ok(s, head) ==
    \A i \in 0..(MAGIC_LENGTH - 1) : s[head + i + 1] = MAGIC[i + 1]

\* The loop over the extra subfields (while extra_len > 0).  extra_len is an
\* unsigned int; every pass debits sizeof(BlockHeaderSubfield) and
\* sizeof(subfield.length) from it, whatever the subfield's length.
RECURSIVE read_subfields(_, _, _, _)
read_subfields(s, rb, extra_len, block_size) ==
    IF extra_len = U32Zero
    THEN [err |-> BGZIP_OK, rb |-> rb, extra_len |-> extra_len,
          block_size |-> block_size]
    ELSE
      LET r1 == ref_and_advance(rb, U32(sizeof_BlockHeaderSubfield))
      IN  IF r1.err # BGZIP_OK
          THEN [err |-> r1.err, rb |-> r1.rb, extra_len |-> extra_len,
                block_size |-> block_size]
          ELSE
            LET e1 == U32Sub(extra_len, U32(sizeof_BlockHeaderSubfield))
                id0 == s[r1.ref + 1]
                id1 == s[r1.ref + 2]
                length == GetU16(s, r1.ref + 2)
                r2 == ref_and_advance(r1.rb, U32(length))
            IN  IF r2.err # BGZIP_OK
                THEN [err |-> r2.err, rb |-> r2.rb, extra_len |-> e1,
                      block_size |-> block_size]
                ELSE
                  LET e2 == U32Sub(e1, U32(sizeof_length))
                  IN  IF id0 = 66 /\ id1 = 67
                      THEN IF length # 2
                           THEN [err |-> BGZIP_MALFORMED_HEADER, rb |-> r2.rb,
                                 extra_len |-> e2, block_size |-> block_size]
                           ELSE read_subfields(s, r2.rb, e2,
                                               GetU16(s, r2.ref))
                      ELSE read_subfields(s, r2.rb, e2, block_size)

\* read_block(&block, &src): the return code, the block as far as it was
\* filled in, and the cursor as the call leaves it.
read_block(s, src) ==
    LET b0 == NoBlock
        rh == ref_and_advance(src, U32(sizeof_BlockHeader))
    IN
    IF rh.err # BGZIP_OK THEN [err |-> rh.err, block |-> b0, src |-> rh.rb]
    ELSE IF ~magic_ok(s, rh.ref)
    THEN [err |-> BGZIP_MALFORMED_HEADER, block |-> b0, src |-> rh.rb]
    ELSE
      LET head_extra_len == GetU16(s, rh.ref + 10)
          sub == read_subfields(s, rh.rb, U32(head_extra_len), 0)
          b1 == [b0 EXCEPT !.block_size = sub.block_size]
      IN
      IF sub.err # BGZIP_OK THEN [err |-> sub.err, block |-> b1, src |-> sub.rb]
      ELSE IF sub.extra_len # U32Zero
      THEN [err |-> BGZIP_BLOCK_SIZE_MISMATCH, block |-> b1, src |-> sub.rb]
      ELSE IF 0 >= sub.block_size
      THEN [err |-> BGZIP_BLOCK_SIZE_NEGATIVE, block |-> b1, src |-> sub.rb]
      ELSE
        LET deflated_size ==
                U32Sub(U32Sub(U32Sub(U32(1 + sub.block_size),
                                     U32(sizeof_BlockHeader)),
                              U32(head_extra_len)),
                       U32(sizeof_BlockTailer))
            b2 == [b1 EXCEPT !.next_in = sub.rb.next_in,
                             !.deflated_size = deflated_size]
            rp == ref_and_advance(sub.rb, deflated_size)
        IN
        IF rp.err # BGZIP_OK THEN [err |-> rp.err, block |-> b2, src |-> rp.rb]
        ELSE
          LET rt == ref_and_advance(rp.rb, U32(sizeof_BlockTailer))
          IN
          IF rt.err # BGZIP_OK
          THEN [err |-> rt.err, block |-> b2, src |-> rt.rb]
          ELSE [err |-> BGZIP_OK,
                block |-> [b2 EXCEPT !.crc = GetU32(s, rt.ref),
                                     !.inflated_size = GetU32(s, rt.ref + 4)],
                src |-> rt.rb]

\* ------------------------------------------------------------------------
\* Single-block codec
\* ------------------------------------------------------------------------
\* inflate_block(&block): the return code and the bytes stored at
\* block.next_out.  inflate is given zst.avail_out = 1024 * 1024 bytes of
\* room, whatever the block's inflated_size is.
inflate_block(s, block) ==
    LET z == inflate(Slice(s, block.next_in, U32Val(block.deflated_size)),
                     zst_avail_out)
    IN  IF z.err # Z_STREAM_END
        THEN [err |-> BGZIP_ZLIB_ERROR, out |-> z.out]
        ELSE IF block.inflated_size # U32(DLen(z.out))
        THEN [err |-> BGZIP_BLOCK_SIZE_MISMATCH, out |-> z.out]
        ELSE IF block.crc # crc32(z.out)
        THEN [err |-> BGZIP_CRC_MISMATCH, out |-> z.out]
        ELSE [err |-> BGZIP_OK, out |-> z.out]

\* head_subfield.block_size (an unsigned short) for a payload of total_out
\* bytes
bsize_field(total_out) ==
    U16(sizeof_BlockHeader + sizeof_BlockHeaderBGZipSubfield + total_out
        + sizeof_BlockTailer - 1)

\* a fault: block.block_size = head_subfield.block_size, the byte that BSIZE
\* leaves out not added back
reported_block_size_without_one(bsize) == U16(bsize)

\* block.block_size (an unsigned short) = 1 + head_subfield.block_size
reported_block_size(bsize) == U16(1 + bsize)

\* HEADER: magic, mod_time 0, extra_flags 0, os_type 0xFF, extra_len 6,
\* then the "BC" subfield's id and length
HEADER ==
    MAGIC \o <<0, 0, 0, 0>> \o <<0>> \o <<255>>
          \o LE16(sizeof_BlockHeaderBGZipSubfield)
          \o <<66, 67>> \o LE16(2)

\* compress_block(&block) for the window `data` (block.next_in,
\* block.available_in = block.inflated_size = DLen(data)): the return code,
\* the bytes stored from block.next_out on and the reported block_size.
compress_block(data) ==
    LET payload == deflate(data)
        bsize == bsize_field(Len(payload))
    IN  [err |-> BGZIP_OK,
         out |-> HEADER \o LE16(bsize) \o payload
                 \o LE32(crc32(data)) \o LE32(U32(DLen(data))),
         block_size |-> reported_block_size(bsize)]


\* ------------------------------------------------------------------------
\* Batch planners
\* ------------------------------------------------------------------------
\* a fault: the quotient rounded down
number_of_chunks_floor(bytes_available) ==
    bytes_available \div block_data_inflated_size

\* a fault: one window more than the full ones, also when nothing is left
\* for it
number_of_chunks_floor_plus_one(bytes_available) ==
    bytes_available \div block_data_inflated_size + 1

\* number_of_chunks = ceil(bytes_available / block_data_inflated_size)
number_of_chunks_of(bytes_available) ==
    (bytes_available + block_data_inflated_size - 1)
        \div block_data_inflated_size

\* The planning loop of compress_to_stream from iteration i on;
\* bytes_available is the unsigned int the loop decrements.
RECURSIVE plan_windows(_, _, _)
plan_windows(i, number_of_chunks, bytes_available) ==
    IF i >= number_of_chunks THEN <<>>
    ELSE
      LET chunk_size ==
              IF ~U32Lt(bytes_available, U32(block_data_inflated_size))
              THEN block_data_inflated_size
              ELSE U32Val(bytes_available)
          block == [NoBlock EXCEPT
                      !.inflated_size = U32(chunk_size),
                      !.next_in = i * block_data_inflated_size,
                      !.available_in = chunk_size,
                      !.next_out = 0,
                      !.avail_out = block_data_inflated_size
                                    + block_metadata_size]
      IN  <<block>>
          \o plan_windows(i + 1, number_of_chunks,
                          U32Sub(bytes_available,
                                 U32(block_data_inflated_size)))

\* The planning loop of decompress_into from iteration i on: what the loop
\* does with r, the outcome of read_block(&blocks[i], &src).  inflated_size
\* is the C int of the source, kept as its 32 bits.
RECURSIVE plan_into(_, _, _, _)
\* a fault: bytes_read += block_size, the byte that BSIZE leaves out not
\* added back
plan_into_step_without_one(s, src, i, acc, r) ==
    IF r.err = BGZIP_OK
    THEN plan_into(s, r.src, i + 1,
           [acc EXCEPT
              !.blocks = Append(@, r.block),
              !.scanned = Append(@, src.next_in),
              !.bytes_read = @ + r.block.block_size,
              !.inflated_size = U32Add(@, r.block.inflated_size)])
    ELSE IF r.err = BGZIP_INSUFFICIENT_BYTES
    THEN [acc EXCEPT !.scanned = Append(@, src.next_in)]
    ELSE IF r.err = BGZIP_MALFORMED_HEADER
    THEN [acc EXCEPT !.scanned = Append(@, src.next_in),
                     !.exc = "BGZIPMalformedHeaderException"]
    ELSE [acc EXCEPT !.scanned = Append(@, src.next_in),
                     !.exc = "BGZIPException"]

plan_into_step(s, src, i, acc, r) ==
    IF r.err = BGZIP_OK
    THEN plan_into(s, r.src, i + 1,
           [acc EXCEPT
              !.blocks = Append(@, r.block),
              !.scanned = Append(@, src.next_in),
              !.bytes_read = @ + 1 + r.block.block_size,
              !.inflated_size = U32Add(@, r.block.inflated_size)])
    ELSE IF r.err = BGZIP_INSUFFICIENT_BYTES
    THEN [acc EXCEPT !.scanned = Append(@, src.next_in)]
    ELSE IF r.err = BGZIP_MALFORMED_HEADER
    THEN [acc EXCEPT !.scanned = Append(@, src.next_in),
                     !.exc = "BGZIPMalformedHeaderException"]
    ELSE [acc EXCEPT !.scanned = Append(@, src.next_in),
                     !.exc = "BGZIPException"]

plan_into(s, src, i, acc) ==
    IF i >= NUMBER_OF_BLOCKS THEN acc
    ELSE plan_into_step(s, src, i, acc, read_block(s, src))

\* The planning loop of decompress_into_2 from iteration i on; avail_out,
\* bytes_read and bytes_inflated are unsigned ints.
RECURSIVE plan_into_2(_, _, _, _, _)
plan_into_2_step(s, src, i, avail_out, acc, r) ==
    IF r.err = BGZIP_OK
    THEN IF U32Lt(avail_out,
                  U32Add(acc.inflated_size, r.block.inflated_size))
         THEN [acc EXCEPT !.scanned = Append(@, src.next_in)]
         ELSE plan_into_2(s, r.src, i + 1, avail_out,
                [acc EXCEPT
                   !.blocks = Append(@, r.block),
                   !.scanned = Append(@, src.next_in),
                   !.bytes_read = @ + 1 + r.block.block_size,
                   !.inflated_size = U32Add(@, r.block.inflated_size)])
    ELSE IF r.err = BGZIP_INSUFFICIENT_BYTES
    THEN [acc EXCEPT !.scanned = Append(@, src.next_in)]
    ELSE IF r.err = BGZIP_MALFORMED_HEADER
    THEN [acc EXCEPT !.scanned = Append(@, src.next_in),
                     !.exc = "BGZIPMalformedHeaderException"]
    ELSE [acc EXCEPT !.scanned = Append(@, src.next_in),
                     !.exc = "BGZIPException"]

plan_into_2(s, src, i, avail_out, acc) ==
    IF i >= NUMBER_OF_BLOCKS THEN acc
    ELSE plan_into_2_step(s, src, i, avail_out, acc, read_block(s, src))

EmptyPlan ==
    [blocks |-> <<>>, scanned |-> <<>>, bytes_read |-> 0,
     inflated_size |-> U32Zero, exc |-> ""]

\* An offset from the start of the destination that lies at or beyond
\* FarAway is kept as FarAway: it is outside every destination.
FarAway == 1073741824

\* out += member_size, out an offset and member_size an unsigned int
advance_out(out, member_size) ==
    IF out >= FarAway \/ member_size[1] >= 16384 THEN FarAway
    ELSE Min(out + U32Val(member_size), FarAway)

\* blocks[i].next_out = out; out += blocks[i].inflated_size
RECURSIVE assign_next_out(_, _)
assign_next_out(bs, out) ==
    IF bs = <<>> THEN <<>>
    ELSE <<[bs[1] EXCEPT !.next_out = out]>>
         \o assign_next_out(Tail(bs),
                             advance_out(out, bs[1].inflated_size))

\* PyByteArray_Resize(dst, size): new bytes are not initialised
PyByteArray_Resize(d, size) ==
    IF size <= DLen(d) THEN DTake(d, size)
    ELSE DCat(d, Run(Uninit, size - DLen(d)))


\* ------------------------------------------------------------------------
\* Bounds and inputs
\* ------------------------------------------------------------------------
\* num_threads ranges over 1..MaxThreads
MaxThreads == 2

\* a damaged stream is at most this long
MaxDamagedLen == 70

\* The buffers handed to compress_to_stream.
Inputs ==
    { <<>>,
      Run(65, 1),
      Run(65, 2) \o Run(66, 1),
      Run(0, block_data_inflated_size - 1),
      Run(0, block_data_inflated_size),
      Run(0, block_data_inflated_size + 1),
      Run(7, block_data_inflated_size) \o Run(9, block_data_inflated_size),
      Run(0, 260000),
      Run(0, (NUMBER_OF_BLOCKS + 1) * block_data_inflated_size) }

\* What the destination bytearray of decompress_into holds before the
\* first call.
DstInits == { <<>>, Run(88, 2) }

\* The sizes of the memoryview handed to decompress_into_2, filled with EE.
DstSizes == { 3, 100000, 300000 }

\* the num_threads argument
Threads == 1..MaxThreads


\* ------------------------------------------------------------------------
\* State
\* ------------------------------------------------------------------------
VARIABLES
    stage,            \* "write", "written", "read", "closed"
    pc,               \* "idle", "deflating", "inflating"
    entry,            \* the entry point of the current or last call
    num_threads,
    input_buff,       \* compress_to_stream: the input buffer
    scratch_buffers,  \* compress_to_stream: what each scratch buffer holds
    handle,           \* the bytes written to the sink
    stream,           \* the bytes the reader takes its chunks from
    origin,           \* "handle", "damaged" (one byte changed), "fixture",
                      \* "crafted"
    chunk_len,        \* the reader's chunk length
    fed,              \* bytes of stream handed to inflate calls so far
    tail,             \* src_buff[bytes_read:] of the previous call
    calls,            \* inflate calls that returned
    consumed,         \* the sum of the bytes_read they returned
    dst_init,         \* the destination before the first call
    src_buff,         \* the source of the current or last inflate call
    dst_buff,         \* the destination
    dst_before,       \* the destination when the current call began
    offset,           \* decompress_into_2: the offset argument
    blocks,           \* Block blocks[NUMBER_OF_BLOCKS], the planned prefix
    plan,             \* the planner's locals
    done,             \* the iterations of the prange that ended
    first_err,        \* the error code the prange keeps, BGZIP_OK if none
    may_run,          \* the iterations that were running when it was kept
    exc,              \* the exception the last call raised, "" if none
    ret,              \* what the last call returned
    oob,              \* a worker stored bytes outside the destination
    size_pc,          \* lengths only: "idle", "deflating", "returned", "raised"
    size_entry,       \* lengths only: the deflate entry point called
    size_threads,     \* lengths only: num_threads
    size_blocks,      \* lengths only: Block blocks[NUMBER_OF_BLOCKS]
    size_done,        \* lengths only: the iterations of the prange that ended
    size_err,         \* lengths only: the error code the prange keeps
    size_may_run,     \* lengths only: iterations running when it was kept
    size_exc,         \* lengths only: the exception raised, "" if none
    size_ret          \* lengths only: the lengths returned or written

byte_vars ==
    <<stage, pc, entry, num_threads, input_buff, scratch_buffers, handle,
      stream, origin, chunk_len, fed, tail, calls, consumed, dst_init,
      src_buff, dst_buff,
      dst_before, offset, blocks, plan, done, first_err, may_run, exc, ret,
      oob>>

size_vars ==
    <<size_pc, size_entry, size_threads, size_blocks, size_done, size_err,
      size_may_run, size_exc, size_ret>>

vars == <<byte_vars, size_vars>>

writer_vars == <<input_buff, scratch_buffers, handle>>
reader_vars ==
    <<stream, origin, chunk_len, fed, tail, calls, consumed, dst_init>>
inflate_vars == <<src_buff, dst_buff, dst_before, offset, oob>>

NoRet == [bytes_read |-> 0, bytes_inflated |-> 0]

Init ==
    /\ stage = "write"
    /\ pc = "idle"
    /\ entry = ""
    /\ num_threads = 1
    /\ input_buff = <<>>
    /\ scratch_buffers = <<>>
    /\ handle = <<>>
    /\ stream = <<>>
    /\ origin = ""
    /\ chunk_len = 0
    /\ fed = 0
    /\ tail = <<>>
    /\ calls = 0
    /\ consumed = 0
    /\ dst_init = <<>>
    /\ src_buff = <<>>
    /\ dst_buff = <<>>
    /\ dst_before = <<>>
    /\ offset = 0
    /\ blocks = <<>>
    /\ plan = EmptyPlan
    /\ done = {}
    /\ first_err = BGZIP_OK
    /\ may_run = {}
    /\ exc = ""
    /\ ret = NoRet
    /\ oob = FALSE
    /\ size_pc = "idle"
    /\ size_entry = ""
    /\ size_threads = 1
    /\ size_blocks = <<>>
    /\ size_done = {}
    /\ size_err = BGZIP_OK
    /\ size_may_run = {}
    /\ size_exc = ""
    /\ size_ret = <<>>

\* prange(n, num_threads, schedule="dynamic"): iteration i can be running
\* when fewer than num_threads of the iterations handed out before it are.
can_run(i) ==
    /\ i \in 1..Len(blocks)
    /\ i \notin done
    /\ i <= Cardinality(done) + num_threads

\* ------------------------------------------------------------------------
\* compress_to_stream
\* ------------------------------------------------------------------------
compress_to_stream_call(X, t) ==
    /\ stage = "write" /\ pc = "idle"
    /\ number_of_chunks_of(DLen(X)) <= NUMBER_OF_BLOCKS
    /\ entry' = "compress_to_stream"
    /\ num_threads' = t
    /\ input_buff' = X
    /\ blocks' = plan_windows(0, number_of_chunks_of(DLen(X)), U32(DLen(X)))
    /\ scratch_buffers' = [i \in 1..number_of_chunks_of(DLen(X)) |-> <<>>]
    /\ done' = {}
    /\ pc' = "deflating"
    /\ exc' = ""
    /\ UNCHANGED <<stage, handle, plan, first_err, may_run, ret>>
    /\ UNCHANGED reader_vars
    /\ UNCHANGED inflate_vars
    /\ UNCHANGED size_vars

\* more than NUMBER_OF_BLOCKS chunks: raise Exception
compress_to_stream_reject(X, t) ==
    /\ stage = "write" /\ pc = "idle"
    /\ number_of_chunks_of(DLen(X)) > NUMBER_OF_BLOCKS
    /\ entry' = "compress_to_stream"
    /\ num_threads' = t
    /\ input_buff' = X
    /\ exc' = "Exception"
    /\ stage' = "closed"
    /\ UNCHANGED <<pc, scratch_buffers, handle, blocks, plan, done,
                   first_err, may_run, ret>>
    /\ UNCHANGED reader_vars
    /\ UNCHANGED inflate_vars
    /\ UNCHANGED size_vars

\* the blocks of the first k windows bs of X, as the write loop writes them
RECURSIVE first_blocks(_, _, _, _)
first_blocks(X, bs, i, k) ==
    IF i > k THEN <<>>
    ELSE compress_block(DSub(X, bs[i].next_in, bs[i].available_in)).out
         \o first_blocks(X, bs, i + 1, k)

\* PyList_GetItem(compressed_chunks, i) with i beyond the list is NULL, and
\* PyByteArray_AS_STRING reads through it: the read faults and the process
\* is killed, or it yields some address, the workers store through it, and
\* the write loop ends at scratch_buffers[i] with an IndexError
NullBufferOutcomes == {"SIGSEGV", "IndexError"}

\* the numbers of scratch buffers that are fewer than the n windows
ShortLists(n) == {0, n - 1} \cap 0..(n - 1)

\* compress_to_stream with fewer scratch buffers than windows
compress_to_stream_short ==
    /\ stage = "write" /\ pc = "idle"
    /\ \E X \in Inputs, t \in Threads, o \in NullBufferOutcomes :
         /\ number_of_chunks_of(DLen(X)) <= NUMBER_OF_BLOCKS
         /\ \E k \in ShortLists(number_of_chunks_of(DLen(X))) :
               /\ entry' = "compress_to_stream"
               /\ num_threads' = t
               /\ input_buff' = X
               /\ scratch_buffers' = [i \in 1..k |-> <<>>]
               /\ exc' = o
               /\ handle' =
                     IF o = "SIGSEGV" THEN handle
                     ELSE handle
                          \o first_blocks(X,
                                plan_windows(0, k, U32(DLen(X))), 1, k)
         /\ stage' = "closed"
    /\ UNCHANGED <<pc, blocks, plan, done, first_err, may_run, ret>>
    /\ UNCHANGED reader_vars
    /\ UNCHANGED inflate_vars
    /\ UNCHANGED size_vars

\* one iteration of the prange over compress_block
compress_worker(i) ==
    /\ pc = "deflating"
    /\ can_run(i)
    /\ LET r == compress_block(DSub(input_buff, blocks[i].next_in,
                                    blocks[i].available_in))
       IN  /\ scratch_buffers' = [scratch_buffers EXCEPT ![i] = r.out]
           /\ blocks' = [blocks EXCEPT ![i].block_size = r.block_size]
    /\ done' = done \cup {i}
    /\ UNCHANGED <<stage, pc, entry, num_threads, input_buff, handle, plan,
                   first_err, may_run, exc, ret>>
    /\ UNCHANGED reader_vars
    /\ UNCHANGED inflate_vars
    /\ UNCHANGED size_vars

\* scratch_buffers[i][:block_size]
buffer_prefix(buf, k) ==
    [j \in 1..k |-> IF j <= Len(buf) THEN buf[j] ELSE Uninit]

RECURSIVE written_blocks(_, _, _)
written_blocks(bufs, bs, i) ==
    IF i > Len(bs) THEN <<>>
    ELSE buffer_prefix(bufs[i], bs[i].block_size)
         \o written_blocks(bufs, bs, i + 1)

\* the prange ended: handle.write of every block, in order
compress_to_stream_return ==
    /\ pc = "deflating"
    /\ done = 1..Len(blocks)
    /\ handle' = handle \o written_blocks(scratch_buffers, blocks, 1)
    /\ pc' = "idle"
    /\ stage' = "written"
    /\ UNCHANGED <<entry, num_threads, input_buff, scratch_buffers, blocks,
                   plan, done, first_err, may_run, exc, ret>>
    /\ UNCHANGED reader_vars
    /\ UNCHANGED inflate_vars
    /\ UNCHANGED size_vars


\* ------------------------------------------------------------------------
\* The reader: the stream it reads and how it cuts it into chunks
\* ------------------------------------------------------------------------
subfield(id0, id1, payload) == <<id0, id1>> \o LE16(Len(payload)) \o payload

\* A BGZF block for `data` whose extra area holds the subfields `before`,
\* the "BC" subfield and the subfields `after`.
bgzf_block(before, after, data) ==
    LET payload == deflate(data)
        extra_len == Len(before) + sizeof_BlockHeaderBGZipSubfield
                     + Len(after)
        bsize == sizeof_BlockHeader + extra_len + Len(payload)
                 + sizeof_BlockTailer - 1
    IN  MAGIC \o <<0, 0, 0, 0, 0, 255>> \o LE16(extra_len)
        \o before \o subfield(66, 67, LE16(bsize)) \o after
        \o payload \o LE32(crc32(data)) \o LE32(U32(DLen(data)))

\* Streams of valid BGZF blocks written by other writers.
Fixtures ==
    { bgzf_block(subfield(88, 89, <<1, 2>>), <<>>, Run(65, 1))
          \o bgzf_block(<<>>, <<>>, Run(66, 2)),
      bgzf_block(subfield(88, 89, <<>>), <<>>, Run(65, 1))
          \o bgzf_block(<<>>, <<>>, Run(66, 2)),
      bgzf_block(<<>>, subfield(88, 89, <<1, 2, 3, 4>>), Run(65, 1)) }

\* the block b with the inflated size of its tailer replaced by isize
with_isize(b, isize) == SubSeq(b, 1, Len(b) - 4) \o LE32(isize)

\* a block whose BC subfield, the first of its extra area, declares bsize
with_bsize(b, bsize) ==
    SubSeq(b, 1, 16) \o LE16(bsize) \o SubSeq(b, 19, Len(b))

\* a block size too small for the header, the extra area and the tailer
ShortBSize == 20

\* the block b with the byte at index p changed
with_other_byte(b, p) == [b EXCEPT ![p] = (@ + 1) % 256]

\* Streams made to mislead the planner: a block that declares an inflated
\* size of 2^32 - 1 after a block of one byte; a block that declares a
\* block size of ShortBSize + 1 bytes; a block with another CRC than its
\* data's, followed by a block whose payload is not a deflate stream.
Crafted ==
    { bgzf_block(<<>>, <<>>, Run(65, 1))
          \o with_isize(bgzf_block(<<>>, <<>>, Run(66, 2)),
                        <<65535, 65535>>),
      with_bsize(bgzf_block(<<>>, <<>>, Run(67, 1)), ShortBSize),
      with_other_byte(bgzf_block(<<>>, <<>>, Run(68, 1)),
                      sizeof_BlockHeader + sizeof_BlockHeaderBGZipSubfield
                        + 1 + Len(deflate(Run(68, 1))) + 1)
          \o with_other_byte(bgzf_block(<<>>, <<>>, Run(69, 1)),
                             sizeof_BlockHeader
                               + sizeof_BlockHeaderBGZipSubfield + 1) }

Entries == {"decompress_into", "decompress_into_2"}

DstChoices(e) ==
    IF e = "decompress_into" THEN DstInits
    ELSE { Run(238, n) : n \in DstSizes }

\* the reader's chunk length: every length up to the stream's
ChunkLens(s) == IF s = <<>> THEN {0} ELSE 1..Len(s)

open(s, e, t, c, d0) ==
    /\ stage' = "read"
    /\ stream' = s
    /\ entry' = e
    /\ num_threads' = t
    /\ chunk_len' = c
    /\ dst_buff' = d0
    /\ dst_before' = d0
    /\ fed' = 0
    /\ tail' = <<>>
    /\ calls' = 0
    /\ consumed' = 0
    /\ dst_init' = d0
    /\ exc' = ""
    /\ UNCHANGED <<pc, src_buff, offset, blocks, plan, done, first_err,
                   may_run, ret, oob>>
    /\ UNCHANGED writer_vars
    /\ UNCHANGED size_vars

DamageValues(b) == {0, (b + 1) % 256}

\* read what compress_to_stream wrote
open_handle ==
    /\ stage = "written"
    /\ \E e \in Entries, t \in Threads :
         \E c \in ChunkLens(handle), d0 \in DstChoices(e) :
            /\ origin' = "handle"
            /\ open(handle, e, t, c, d0)

\* read what compress_to_stream wrote with one byte, p, changed to v, in
\* one call
open_damaged ==
    /\ stage = "written"
    /\ Len(handle) <= MaxDamagedLen
    /\ \E e \in Entries, t \in Threads, p \in 1..Len(handle) :
         \E v \in DamageValues(handle[p]), d0 \in DstChoices(e) :
            /\ v # handle[p]
            /\ origin' = "damaged"
            /\ open([handle EXCEPT ![p] = v], e, t, Len(handle), d0)

\* read a crafted stream, in one call
open_crafted ==
    /\ stage = "write" /\ pc = "idle"
    /\ \E f \in Crafted, e \in Entries, t \in Threads :
         \E d0 \in DstChoices(e) :
            /\ origin' = "crafted"
            /\ open(f, e, t, Len(f), d0)

\* read a stream of another writer
open_fixture ==
    /\ stage = "write" /\ pc = "idle"
    /\ \E f \in Fixtures, e \in Entries, t \in Threads :
         \E c \in ChunkLens(f), d0 \in DstChoices(e) :
            /\ origin' = "fixture"
            /\ open(f, e, t, c, d0)

\* the source of the next inflate call: the unconsumed suffix of the
\* previous one, then the next chunk
next_upto == Min(fed + chunk_len, Len(stream))
next_src == tail \o SubSeq(stream, fed + 1, next_upto)

more_to_read == fed < Len(stream) \/ calls = 0

\* ------------------------------------------------------------------------
\* decompress_into
\* ------------------------------------------------------------------------
\* the int passed to PyByteArray_Resize is negative: the resize fails
resize_to(d, size) ==
    IF IsNegative32(size) THEN d ELSE PyByteArray_Resize(d, U32Val(size))

decompress_into_call ==
    /\ stage = "read" /\ pc = "idle" /\ entry = "decompress_into"
    /\ more_to_read
    /\ LET p == plan_into(next_src, BGZipStream(next_src), 0, EmptyPlan)
       IN  /\ plan' = p
           /\ IF p.exc # ""
              THEN /\ exc' = p.exc
                   /\ stage' = "closed"
                   /\ UNCHANGED <<pc, dst_buff, blocks, done>>
              ELSE /\ exc' = ""
                   /\ dst_buff' = resize_to(dst_buff,
                                     U32Add(U32(DLen(dst_buff)),
                                            p.inflated_size))
                   /\ blocks' = assign_next_out(p.blocks, DLen(dst_buff))
                   /\ done' = {}
                   /\ pc' = "inflating"
                   /\ UNCHANGED stage
    /\ src_buff' = next_src
    /\ fed' = next_upto
    /\ dst_before' = dst_buff
    /\ offset' = DLen(dst_buff)
    /\ first_err' = BGZIP_OK
    /\ may_run' = {}
    /\ UNCHANGED <<entry, num_threads, stream, origin, chunk_len, tail,
                   calls, consumed, dst_init, ret, oob>>
    /\ UNCHANGED writer_vars
    /\ UNCHANGED size_vars

\* one iteration of the prange over inflate_block; an error is kept (the
\* exception is raised when the prange ends) and the iterations that start
\* after it are skipped
inflate_worker(i) ==
    /\ pc = "inflating" /\ entry = "decompress_into"
    /\ can_run(i)
    /\ first_err = BGZIP_OK \/ i \in may_run
    /\ LET r == inflate_block(src_buff, blocks[i])
       IN  /\ dst_buff' = DWrite(dst_buff, blocks[i].next_out, r.out)
           /\ oob' = (oob \/ blocks[i].next_out + DLen(r.out) > DLen(dst_buff))
           /\ IF r.err # BGZIP_OK /\ first_err = BGZIP_OK
              THEN /\ first_err' = r.err
                   /\ may_run' = {j \in 1..Len(blocks) : can_run(j)} \ {i}
              ELSE UNCHANGED <<first_err, may_run>>
    /\ done' = done \cup {i}
    /\ UNCHANGED <<stage, pc, entry, num_threads, src_buff, dst_before,
                   offset, blocks, plan, exc, ret>>
    /\ UNCHANGED writer_vars
    /\ UNCHANGED reader_vars
    /\ UNCHANGED size_vars

\* an iteration that starts after an error was kept
skip_worker(i) ==
    /\ pc = "inflating" /\ entry = "decompress_into"
    /\ can_run(i)
    /\ first_err # BGZIP_OK
    /\ done' = done \cup {i}
    /\ UNCHANGED <<stage, pc, entry, num_threads, blocks, plan, first_err,
                   may_run, exc, ret>>
    /\ UNCHANGED writer_vars
    /\ UNCHANGED reader_vars
    /\ UNCHANGED inflate_vars
    /\ UNCHANGED size_vars

\* return bytes_read; the reader keeps src_buff[bytes_read:]
decompress_into_return ==
    /\ pc = "inflating" /\ entry = "decompress_into"
    /\ done = 1..Len(blocks)
    /\ first_err = BGZIP_OK
    /\ ret' = [bytes_read |-> plan.bytes_read, bytes_inflated |-> 0]
    /\ tail' = SubSeq(src_buff, plan.bytes_read + 1, Len(src_buff))
    /\ calls' = calls + 1
    /\ consumed' = consumed + plan.bytes_read
    /\ pc' = "idle"
    /\ UNCHANGED <<stage, entry, num_threads, stream, origin, chunk_len,
                   fed, dst_init, blocks, plan, done, first_err, may_run,
                   exc>>
    /\ UNCHANGED writer_vars
    /\ UNCHANGED inflate_vars
    /\ UNCHANGED size_vars

\* the prange ended with an error kept: raise BGZIPException
decompress_into_raise ==
    /\ pc = "inflating" /\ entry = "decompress_into"
    /\ done = 1..Len(blocks)
    /\ first_err # BGZIP_OK
    /\ exc' = "BGZIPException"
    /\ pc' = "idle"
    /\ stage' = "closed"
    /\ UNCHANGED <<entry, num_threads, blocks, plan, done, first_err,
                   may_run, ret>>
    /\ UNCHANGED writer_vars
    /\ UNCHANGED reader_vars
    /\ UNCHANGED inflate_vars
    /\ UNCHANGED size_vars

\* ------------------------------------------------------------------------
\* decompress_into_2
\* ------------------------------------------------------------------------
decompress_into_2_call ==
    /\ stage = "read" /\ pc = "idle" /\ entry = "decompress_into_2"
    /\ more_to_read
    /\ LET avail_out == U32Sub(U32(DLen(dst_buff)), U32(offset))
           p == plan_into_2(next_src, BGZipStream(next_src), 0, avail_out,
                            EmptyPlan)
       IN  /\ plan' = p
           /\ IF p.exc # ""
              THEN /\ exc' = p.exc
                   /\ stage' = "closed"
                   /\ UNCHANGED <<pc, blocks, done>>
              ELSE /\ exc' = ""
                   /\ blocks' = assign_next_out(p.blocks, offset)
                   /\ done' = {}
                   /\ pc' = "inflating"
                   /\ UNCHANGED stage
    /\ src_buff' = next_src
    /\ fed' = next_upto
    /\ dst_before' = dst_buff
    /\ first_err' = BGZIP_OK
    /\ may_run' = {}
    /\ UNCHANGED <<entry, num_threads, stream, origin, chunk_len, tail,
                   calls, consumed, dst_init, dst_buff, offset, ret, oob>>
    /\ UNCHANGED writer_vars
    /\ UNCHANGED size_vars

\* one iteration of the prange; what inflate_block returns is dropped
inflate_worker_2(i) ==
    /\ pc = "inflating" /\ entry = "decompress_into_2"
    /\ can_run(i)
    /\ LET r == inflate_block(src_buff, blocks[i])
       IN  /\ dst_buff' = DWrite(dst_buff, blocks[i].next_out, r.out)
           /\ oob' = (oob \/ blocks[i].next_out + DLen(r.out) > DLen(dst_buff))
    /\ done' = done \cup {i}
    /\ UNCHANGED <<stage, pc, entry, num_threads, src_buff, dst_before,
                   offset, blocks, plan, first_err, may_run, exc, ret>>
    /\ UNCHANGED writer_vars
    /\ UNCHANGED reader_vars
    /\ UNCHANGED size_vars

\* return bytes_read, bytes_inflated; the reader keeps src_buff[bytes_read:]
\* and moves its offset on
decompress_into_2_return ==
    /\ pc = "inflating" /\ entry = "decompress_into_2"
    /\ done = 1..Len(blocks)
    /\ ret' = [bytes_read |-> plan.bytes_read,
               bytes_inflated |-> U32Val(plan.inflated_size)]
    /\ tail' = SubSeq(src_buff, plan.bytes_read + 1, Len(src_buff))
    /\ offset' = offset + U32Val(plan.inflated_size)
    /\ calls' = calls + 1
    /\ consumed' = consumed + plan.bytes_read
    /\ pc' = "idle"
    /\ UNCHANGED <<stage, entry, num_threads, stream, origin, chunk_len,
                   fed, dst_init, src_buff, dst_buff, dst_before, oob,
                   blocks, plan, done, first_err, may_run, exc>>
    /\ UNCHANGED writer_vars
    /\ UNCHANGED size_vars

\* ------------------------------------------------------------------------
\* Specification
\* ------------------------------------------------------------------------
Next ==
    \/ \E X \in Inputs, t \in Threads : compress_to_stream_call(X, t)
    \/ \E X \in Inputs, t \in Threads : compress_to_stream_reject(X, t)
    \/ compress_to_stream_short
    \/ \E i \in 1..Len(blocks) : compress_worker(i)
    \/ compress_to_stream_return
    \/ open_handle
    \/ open_damaged
    \/ open_fixture
    \/ open_crafted
    \/ decompress_into_call
    \/ \E i \in 1..Len(blocks) : inflate_worker(i)
    \/ \E i \in 1..Len(blocks) : skip_worker(i)
    \/ decompress_into_return
    \/ decompress_into_raise
    \/ decompress_into_2_call
    \/ \E i \in 1..Len(blocks) : inflate_worker_2(i)
    \/ decompress_into_2_return

Spec == Init /\ [][Next]_vars


\* ------------------------------------------------------------------------
\* The deflate entry points, lengths only
\* ------------------------------------------------------------------------
\* The same code with every buffer replaced by its length, so that chunks of
\* any content fit in a state: what deflate makes of a chunk is one of the
\* lengths deflated_sizes allows.

\* the length of n bytes written as stored DEFLATE blocks, each at most 65535
\* bytes behind a 5-byte header: what deflate falls back to for bytes it
\* cannot shorten
stored_size(n) == n + 5 * ((n + 65534) \div 65535)

\* zst.total_out after deflate(&zst, Z_FINISH) on n bytes: from the length
\* of a single run up to the stored length
deflated_sizes(n) ==
    IF n = 0 THEN { Len(deflate(<<>>)) }
    ELSE { Len(deflate(Run(0, n))), stored_size(n) }

\* compress_block(&block) when deflate makes total_out bytes of the window:
\* deflate cannot end in the zst.avail_out = 1024 * 1024 bytes it is given
\* when total_out is larger
compress_block_sizes(block, total_out) ==
    IF total_out > zst_avail_out
    THEN [err |-> BGZIP_ZLIB_ERROR,
          block |-> [block EXCEPT !.total_out = zst_avail_out,
                                  !.stored = sizeof_BlockHeader
                                      + sizeof_BlockHeaderBGZipSubfield
                                      + zst_avail_out]]
    ELSE [err |-> BGZIP_OK,
          block |-> [block EXCEPT
                       !.total_out = total_out,
                       !.stored = sizeof_BlockHeader
                                  + sizeof_BlockHeaderBGZipSubfield
                                  + total_out + sizeof_BlockTailer,
                       !.bsize = bsize_field(total_out),
                       !.block_size =
                           reported_block_size(bsize_field(total_out))]]

\* a Block of which only the lengths are kept; stored is the number of
\* bytes compress_block stored from next_out on
SizeBlock(chunk_size, avail_out) ==
    [inflated_size |-> chunk_size, available_in |-> chunk_size,
     avail_out |-> avail_out, total_out |-> 0, stored |-> 0, bsize |-> 0,
     block_size |-> 0]

\* input_chunks has at most MaxChunks chunks
MaxChunks == 2

\* the lengths of the chunks handed to compress_chunks
ChunkSizes ==
    { 0, 1, block_data_inflated_size, 65504, 65505, 65536, 1100000 }

\* the input_chunks lists, as the lengths of their chunks
ChunkLists ==
    UNION { [1..k -> ChunkSizes] : k \in 1..MaxChunks }
        \cup { [i \in 1..(NUMBER_OF_BLOCKS + 1) |-> 0] }

\* the lengths of the buffers handed to compress_to_stream
WindowInputs ==
    { 0, 1, block_data_inflated_size, block_data_inflated_size + 1, 260000 }

size_can_run(i) ==
    /\ i \in 1..Len(size_blocks)
    /\ i \notin size_done
    /\ i <= Cardinality(size_done) + size_threads

size_call(e, t, bs) ==
    /\ size_pc = "idle"
    /\ size_entry' = e
    /\ size_threads' = t
    /\ size_blocks' = bs
    /\ size_done' = {}
    /\ size_err' = BGZIP_OK
    /\ size_may_run' = {}
    /\ size_pc' = "deflating"
    /\ UNCHANGED <<size_exc, size_ret>>
    /\ UNCHANGED byte_vars

compress_chunks_call(cs, t) ==
    /\ Len(cs) <= NUMBER_OF_BLOCKS
    /\ size_call("compress_chunks", t,
                 [i \in 1..Len(cs) |->
                     SizeBlock(cs[i], cs[i] + block_metadata_size)])

\* more than NUMBER_OF_BLOCKS chunks: raise Exception
compress_chunks_reject(cs, t) ==
    /\ size_pc = "idle"
    /\ Len(cs) > NUMBER_OF_BLOCKS
    /\ size_entry' = "compress_chunks"
    /\ size_threads' = t
    /\ size_exc' = "Exception"
    /\ size_pc' = "raised"
    /\ UNCHANGED <<size_blocks, size_done, size_err, size_may_run, size_ret>>
    /\ UNCHANGED byte_vars

\* compress_to_stream on an input of n bytes
compress_to_stream_sizes(n, t) ==
    /\ number_of_chunks_of(n) <= NUMBER_OF_BLOCKS
    /\ LET bs == plan_windows(0, number_of_chunks_of(n), U32(n))
       IN  size_call("compress_to_stream", t,
                     [i \in 1..Len(bs) |->
                         SizeBlock(bs[i].available_in, bs[i].avail_out)])

\* one iteration of the prange over compress_block; an error is kept (the
\* exception is raised when the prange ends) and the iterations that start
\* after it are skipped
size_worker(i, total_out) ==
    /\ size_pc = "deflating"
    /\ size_can_run(i)
    /\ size_err = BGZIP_OK \/ i \in size_may_run
    /\ LET r == compress_block_sizes(size_blocks[i], total_out)
       IN  /\ size_blocks' = [size_blocks EXCEPT ![i] = r.block]
           /\ IF r.err # BGZIP_OK /\ size_err = BGZIP_OK
              THEN /\ size_err' = r.err
                   /\ size_may_run' =
                          {j \in 1..Len(size_blocks) : size_can_run(j)} \ {i}
              ELSE UNCHANGED <<size_err, size_may_run>>
    /\ size_done' = size_done \cup {i}
    /\ UNCHANGED <<size_pc, size_entry, size_threads, size_exc, size_ret>>
    /\ UNCHANGED byte_vars

\* one iteration in which deflateInit2 does not answer Z_OK (no memory):
\* compress_block returns BGZIP_ZLIB_ERROR before it stores anything
size_worker_init_fails(i) ==
    /\ size_pc = "deflating"
    /\ size_can_run(i)
    /\ size_err = BGZIP_OK \/ i \in size_may_run
    /\ IF size_err = BGZIP_OK
       THEN /\ size_err' = BGZIP_ZLIB_ERROR
            /\ size_may_run' =
                   {j \in 1..Len(size_blocks) : size_can_run(j)} \ {i}
       ELSE UNCHANGED <<size_err, size_may_run>>
    /\ size_done' = size_done \cup {i}
    /\ UNCHANGED <<size_pc, size_entry, size_threads, size_blocks, size_exc,
                   size_ret>>
    /\ UNCHANGED byte_vars

\* an iteration that starts after an error was kept
size_skip(i) ==
    /\ size_pc = "deflating"
    /\ size_can_run(i)
    /\ size_err # BGZIP_OK
    /\ size_done' = size_done \cup {i}
    /\ UNCHANGED <<size_pc, size_entry, size_threads, size_blocks, size_err,
                   size_may_run, size_exc, size_ret>>
    /\ UNCHANGED byte_vars

\* compress_chunks: PyByteArray_Resize(compressed_chunk, block_size) and
\* return the list; compress_to_stream: handle.write of
\* scratch_buffers[i][:block_size]
size_return ==
    /\ size_pc = "deflating"
    /\ size_done = 1..Len(size_blocks)
    /\ size_err = BGZIP_OK
    /\ size_ret' =
         [i \in 1..Len(size_blocks) |->
             IF size_entry = "compress_chunks"
             THEN size_blocks[i].block_size
             ELSE Min(size_blocks[i].block_size, size_blocks[i].avail_out)]
    /\ size_pc' = "returned"
    /\ UNCHANGED <<size_entry, size_threads, size_blocks, size_done,
                   size_err, size_may_run, size_exc>>
    /\ UNCHANGED byte_vars

\* the prange ended with an error kept: raise BGZIPException
size_raise ==
    /\ size_pc = "deflating"
    /\ size_done = 1..Len(size_blocks)
    /\ size_err # BGZIP_OK
    /\ size_exc' = "BGZIPException"
    /\ size_pc' = "raised"
    /\ UNCHANGED <<size_entry, size_threads, size_blocks, size_done,
                   size_err, size_may_run, size_ret>>
    /\ UNCHANGED byte_vars

NextSize ==
    \/ \E cs \in ChunkLists, t \in Threads : compress_chunks_call(cs, t)
    \/ \E cs \in ChunkLists, t \in Threads : compress_chunks_reject(cs, t)
    \/ \E n \in WindowInputs, t \in Threads : compress_to_stream_sizes(n, t)
    \/ \E i \in 1..Len(size_blocks) :
         \E total_out \in deflated_sizes(size_blocks[i].available_in) :
            size_worker(i, total_out)
    \/ \E i \in 1..Len(size_blocks) : size_worker_init_fails(i)
    \/ \E i \in 1..Len(size_blocks) : size_skip(i)
    \/ size_return
    \/ size_raise

SpecSize == Init /\ [][NextSize]_vars


\* ------------------------------------------------------------------------
\* Reference values for the properties
\* ------------------------------------------------------------------------
\* The planned blocks executed one after the other, in index order.
RECURSIVE run_in_order(_, _, _, _)
run_in_order(s, bs, i, d) ==
    IF i > Len(bs) THEN d
    ELSE run_in_order(s, bs, i + 1,
                      DWrite(d, bs[i].next_out, inflate_block(s, bs[i]).out))

all_blocks_ok(s, bs) ==
    \A i \in 1..Len(bs) : inflate_block(s, bs[i]).err = BGZIP_OK

\* One inflate call of entry point e on the whole of s, destination d0,
\* its blocks executed in index order.
one_call_result(e, s, d0, p) ==
    IF p.exc # ""
    THEN [exc |-> p.exc, dst |-> d0, bytes_read |-> 0]
    ELSE
      LET start == IF e = "decompress_into" THEN DLen(d0) ELSE 0
          d1 == IF e = "decompress_into"
                THEN resize_to(d0, U32Add(U32(DLen(d0)), p.inflated_size))
                ELSE d0
          bs == assign_next_out(p.blocks, start)
      IN  [exc |-> IF e = "decompress_into" /\ ~all_blocks_ok(s, bs)
                   THEN "BGZIPException" ELSE "",
           dst |-> run_in_order(s, bs, 1, d1),
           bytes_read |-> p.bytes_read]

one_call(e, s, d0) ==
    one_call_result(e, s, d0,
        IF e = "decompress_into"
        THEN plan_into(s, BGZipStream(s), 0, EmptyPlan)
        ELSE plan_into_2(s, BGZipStream(s), 0, U32(DLen(d0)), EmptyPlan))

\* The layout of a BGZF block as the format defines it: the extra area is a
\* list of subfields, each 4 bytes of header and `length` bytes of payload.
RECURSIVE find_bc(_, _, _)
find_bc(s, q, end) ==
    IF q + sizeof_BlockHeaderSubfield > end THEN 0
    ELSE IF s[q + 1] = 66 /\ s[q + 2] = 67 THEN GetU16(s, q + 4)
    ELSE find_bc(s, q + sizeof_BlockHeaderSubfield + GetU16(s, q + 2), end)

wire_extra_len(s, p) == GetU16(s, p + 10)

wire_len(s, p) ==
    1 + find_bc(s, p + sizeof_BlockHeader,
                p + sizeof_BlockHeader + wire_extra_len(s, p))

wire_payload(s, p) ==
    Slice(s, p + sizeof_BlockHeader + wire_extra_len(s, p),
          wire_len(s, p) - sizeof_BlockHeader - wire_extra_len(s, p)
              - sizeof_BlockTailer)

\* the offsets at which the blocks of a stream of valid blocks start
RECURSIVE block_starts(_, _)
block_starts(s, p) ==
    IF p >= Len(s) THEN <<>>
    ELSE <<p>> \o block_starts(s, p + wire_len(s, p))

\* the end of the last block of s that ends at or before offset c
complete_end(s, c) ==
    LET starts == block_starts(s, 0)
        ends == { starts[k] + wire_len(s, starts[k]) : k \in 1..Len(starts) }
        fit == { x \in ends : x <= c }
    IN  IF fit = {} THEN 0 ELSE CHOOSE x \in fit : \A y \in fit : y <= x

\* the inflated bytes of the blocks of s that end at or before offset c
RECURSIVE inflated_upto(_, _, _)
inflated_upto(s, p, c) ==
    IF p >= Len(s) \/ p + wire_len(s, p) > c THEN <<>>
    ELSE DCat(inflate(wire_payload(s, p), zst_avail_out).out,
              inflated_upto(s, p + wire_len(s, p), c))

valid_origin == origin \in {"handle", "fixture"}

\* an inflate call returned and no other has begun
returned == stage = "read" /\ pc = "idle" /\ calls >= 1

\* the reader has handed over the whole stream and the last call returned
session_over == returned /\ fed = Len(stream)


\* the input is one compress_to_stream takes: at most NUMBER_OF_BLOCKS
\* windows, and a scratch buffer for each of them
accepted_input ==
    /\ DLen(input_buff) <= NUMBER_OF_BLOCKS * block_data_inflated_size
    /\ Len(scratch_buffers) >= number_of_chunks_of(DLen(input_buff))

\* compress_to_stream raised
deflate_raised == stage = "closed" /\ entry = "compress_to_stream"

\* one decompress_into call on everything compress_to_stream wrote
whole_handle_call ==
    /\ origin = "handle" /\ entry = "decompress_into"
    /\ returned /\ calls = 1 /\ chunk_len = Len(stream)

\* inflating what compress_to_stream wrote never raises, and one call on
\* all of it appends the input to the destination and reads every byte
inflates_back ==
    /\ (origin = "handle" /\ entry = "decompress_into") => exc = ""
    /\ whole_handle_call
          => /\ dst_buff = DCat(dst_init, input_buff)
             /\ ret.bytes_read = Len(handle)

\* the first inflate call of a session is over
first_call_ended ==
    \/ returned /\ calls = 1
    \/ stage = "closed" /\ calls = 0 /\ origin # "" /\ entry \in Entries

\* the source of the first call is complete blocks and then a proper prefix
\* of another block, and decompress_into_2 has room for all of them
blocks_then_prefix ==
    /\ first_call_ended
    /\ fed < Len(stream)
    /\ complete_end(stream, fed) < fed
    /\ entry = "decompress_into_2"
          => DLen(dst_init) >= DLen(inflated_upto(stream, 0, fed))

\* a block scanned by the planner, with its 12 header bytes at hand, does
\* not begin with 1F 8B 08 04
bad_magic_scanned ==
    \E k \in 1..Len(plan.scanned) :
        /\ plan.scanned[k] + 12 <= Len(src_buff)
        /\ Slice(src_buff, plan.scanned[k], 4) # <<31, 139, 8, 4>>

\* the destination as the call's blocks leave it when they run one after
\* the other
dst_in_order ==
    run_in_order(src_buff, blocks, 1,
        IF entry = "decompress_into"
        THEN resize_to(dst_before,
                       U32Add(U32(DLen(dst_before)), plan.inflated_size))
        ELSE dst_before)

\* what compress_to_stream writes when the windows are deflated one after
\* the other
RECURSIVE handle_in_order(_)
handle_in_order(i) ==
    IF i * block_data_inflated_size >= DLen(input_buff) THEN <<>>
    ELSE compress_block(DSub(input_buff, i * block_data_inflated_size,
                             block_data_inflated_size)).out
         \o handle_in_order(i + 1)

\* the windows planned cover the input: ceil(n / 65280) of them, window i
\* at offset i * 65280 with min(65280, n - i * 65280) bytes
windows_cover ==
    LET n == DLen(input_buff)
    IN  /\ Len(blocks) * 65280 >= n
        /\ (Len(blocks) - 1) * 65280 < n
        /\ \A i \in 1..Len(blocks) :
             /\ blocks[i].next_in = (i - 1) * 65280
             /\ blocks[i].available_in = Min(65280, n - (i - 1) * 65280)
             /\ blocks[i].inflated_size = U32(blocks[i].available_in)
             /\ blocks[i].available_in \in 1..65280
             /\ i < Len(blocks) => blocks[i].available_in = 65280

\* compress_to_stream was called on a non-empty input
deflate_called == entry = "compress_to_stream" /\ DLen(input_buff) > 0

\* the on-wire layout of the block a scratch buffer holds
block_layout(buf, window) ==
    /\ Len(buf) >= 26
    /\ SubSeq(buf, 1, 12) = <<31, 139, 8, 4, 0, 0, 0, 0, 0, 255, 6, 0>>
    /\ SubSeq(buf, 13, 16) = <<66, 67, 2, 0>>
    /\ GetU16(buf, 16) = Len(buf) - 1
    /\ inflate(Slice(buf, 18, Len(buf) - 26), zst_avail_out)
           = [err |-> Z_STREAM_END, out |-> window]
    /\ GetU32(buf, Len(buf) - 8) = crc32(window)
    /\ GetU32(buf, Len(buf) - 4) = U32(DLen(window))


\* ------------------------------------------------------------------------
\* Properties
\* ------------------------------------------------------------------------

C3_blocks_then_prefix ==
    (valid_origin /\ blocks_then_prefix)
    => /\ exc = ""
       /\ ret.bytes_read = complete_end(stream, fed)
       /\ tail = SubSeq(stream, complete_end(stream, fed) + 1, fed)
       /\ IF entry = "decompress_into"
          THEN dst_buff = DCat(dst_init, inflated_upto(stream, 0, fed))
          ELSE /\ dst_buff
                    = DWrite(dst_init, 0, inflated_upto(stream, 0, fed))
               /\ ret.bytes_inflated
                    = DLen(inflated_upto(stream, 0, fed))

\* The same holds of every stream compress_to_stream wrote.
blocks_then_prefix_of_handle ==
    (origin = "handle" /\ blocks_then_prefix)
    => /\ exc = ""
       /\ ret.bytes_read = complete_end(stream, fed)
       /\ tail = SubSeq(stream, complete_end(stream, fed) + 1, fed)
       /\ IF entry = "decompress_into"
          THEN dst_buff = DCat(dst_init, inflated_upto(stream, 0, fed))
          ELSE dst_buff = DWrite(dst_init, 0, inflated_upto(stream, 0, fed))

\* C4: an inflate call of either entry point returns normally only if
\* every block it planned inflated without a zlib error to the number of
\* bytes and the CRC-32 of its tailer.
C4_returns_only_if_checked ==
    returned => all_blocks_ok(src_buff, blocks)

C6_thread_invariance ==
    /\ (returned /\ entry \in Entries)
          => /\ dst_buff = dst_in_order
             /\ ret.bytes_read = plan.bytes_read
    /\ (stage = "written") => handle = handle_in_order(0)

\* The same holds of the calls on streams of valid blocks, and of
\* decompress_into calls on any stream.
thread_invariance_of_checked_calls ==
    (returned /\ entry \in Entries
        /\ (valid_origin \/ entry = "decompress_into"))
    => dst_buff = dst_in_order

\* C7, as amended: compress_to_stream on an empty input plans no window and
\* writes nothing to the handle; the empty block of 28 bytes, with CRC 0 and
\* inflated size 0, is what compress_block makes of an empty window, and
\* compress_to_stream never plans one.
C7_empty_input ==
    /\ (stage = "written" /\ input_buff = <<>>)
          => /\ blocks = <<>>
             /\ handle = <<>>
    /\ pc = "deflating" => \A i \in 1..Len(blocks) : blocks[i].available_in > 0
    /\ Len(compress_block(<<>>).out) = 28
    /\ compress_block(<<>>).block_size = 28
    /\ GetU32(compress_block(<<>>).out, 20) = U32Zero
    /\ GetU32(compress_block(<<>>).out, 24) = U32Zero

\* C7 as the claim states it: compress_to_stream on an empty input writes
\* one block, of 28 bytes, with CRC 0 and inflated size 0.
C7_empty_input_one_block ==
    (stage = "written" /\ input_buff = <<>>)
    => /\ Len(blocks) = 1
       /\ Len(handle) = 28
       /\ GetU32(handle, 20) = U32Zero
       /\ GetU32(handle, 24) = U32Zero

C7_witness ==
    /\ stage = "written"
    /\ entry = "compress_to_stream"
    /\ input_buff = <<>>
    /\ handle = <<>>

C9_block_layout ==
    size_pc = "returned"
    => \A i \in 1..Len(size_blocks) :
          /\ size_blocks[i].stored
                = sizeof_BlockHeader + sizeof_BlockHeaderBGZipSubfield
                  + size_blocks[i].total_out + sizeof_BlockTailer
          /\ size_blocks[i].bsize = size_blocks[i].stored - 1
          /\ size_blocks[i].block_size = size_blocks[i].stored
          /\ size_ret[i] = size_blocks[i].stored

\* The blocks compress_to_stream writes have this layout, and block_size
\* is the number of bytes they take on the wire.
layout_of_written_blocks ==
    stage = "written"
    => \A i \in 1..Len(blocks) :
          /\ block_layout(scratch_buffers[i],
                          DSub(input_buff, blocks[i].next_in,
                               blocks[i].available_in))
          /\ blocks[i].block_size = Len(scratch_buffers[i])

\* C10: every block compress_to_stream or compress_chunks returns takes
\* between 18 and 65536 bytes on the wire, and neither the 16 bits of BSIZE
\* nor the 16 bits of the reported block_size wrap.
C10_block_size_bound ==
    size_pc = "returned"
    => \A i \in 1..Len(size_blocks) :
          /\ size_blocks[i].stored >= 18
          /\ size_blocks[i].stored <= 65536
          /\ size_blocks[i].stored - 1 < W16
          /\ 1 + size_blocks[i].bsize < W16

\* The bound holds of the blocks compress_to_stream writes, whose windows
\* have at most 65280 bytes.
block_size_bound_of_windows ==
    (size_pc = "returned" /\ size_entry = "compress_to_stream")
    => \A i \in 1..Len(size_blocks) :
          /\ size_blocks[i].stored \in 18..65536
          /\ size_blocks[i].bsize = size_blocks[i].stored - 1
          /\ size_blocks[i].block_size = size_blocks[i].stored

\* the declared inflated sizes of the blocks bs add up to at most room,
\* added without wrap-around
RECURSIVE sizes_fit(_, _)
sizes_fit(bs, room) ==
    \/ bs = <<>>
    \/ /\ ~U32Lt(U32(room), bs[1].inflated_size)
       /\ sizes_fit(Tail(bs), room - U32Val(bs[1].inflated_size))

\* what is left of room after the blocks bs, which fit
RECURSIVE room_after(_, _)
room_after(bs, room) ==
    IF bs = <<>> THEN room
    ELSE room_after(Tail(bs), room - U32Val(bs[1].inflated_size))

\* the bytes the blocks bs take in the source
RECURSIVE wire_total(_)
wire_total(bs) ==
    IF bs = <<>> THEN 0 ELSE 1 + bs[1].block_size + wire_total(Tail(bs))

\* decompress_into_2 planned its batch and the workers have not ended
planned_2 == pc = "inflating" /\ entry = "decompress_into_2"

\* the block that follows the planned ones in the source, as read_block
\* finds it
block_after_plan ==
    read_block(src_buff,
               [next_in |-> plan.bytes_read,
                available_in |-> Len(src_buff) - plan.bytes_read])

\* the admission rule of decompress_into_2 for a destination with room
\* bytes from the offset on
admission(room) ==
    /\ sizes_fit(blocks, room)
    /\ plan.inflated_size = U32(room - room_after(blocks, room))
    /\ plan.bytes_read = wire_total(blocks)
    /\ (Len(blocks) < NUMBER_OF_BLOCKS /\ block_after_plan.err = BGZIP_OK)
          => U32Lt(U32(room_after(blocks, room)),
                   block_after_plan.block.inflated_size)

\* C11: the declared inflated sizes of the blocks decompress_into_2 admits
\* add up to at most avail_out = len(dst) - offset; planning stops, and
\* raises nothing, at the first block that would exceed it; that block and
\* the later ones count neither in bytes_read nor in bytes_inflated, so the
\* tail begins with that block.
C11_admission ==
    planned_2 => admission(DLen(dst_buff) - offset)

\* The same holds of every stream in which no sum of declared sizes
\* reaches 2^32.
admission_without_wrap ==
    (planned_2 /\ origin # "crafted") => admission(DLen(dst_buff) - offset)

\* the declared lengths of the subfields other than "BC" in the extra area
\* from q to end
RECURSIVE foreign_lengths(_, _, _)
foreign_lengths(s, q, end) ==
    IF q + sizeof_BlockHeaderSubfield > end THEN {}
    ELSE (IF s[q + 1] = 66 /\ s[q + 2] = 67 THEN {}
          ELSE {GetU16(s, q + 2)})
         \cup foreign_lengths(s, q + sizeof_BlockHeaderSubfield
                                    + GetU16(s, q + 2), end)

\* the declared lengths of the foreign subfields of all blocks of s
all_foreign_lengths(s) ==
    UNION { foreign_lengths(s, block_starts(s, 0)[k] + sizeof_BlockHeader,
                            block_starts(s, 0)[k] + sizeof_BlockHeader
                                + wire_extra_len(s, block_starts(s, 0)[k])) :
            k \in 1..Len(block_starts(s, 0)) }

\* the Block b holds what the block at offset p of s says: BSIZE, where the
\* payload is and how long, and the tailer's CRC and inflated size
parsed_as_written(s, p, b) ==
    /\ b.block_size = wire_len(s, p) - 1
    /\ b.next_in = p + sizeof_BlockHeader + wire_extra_len(s, p)
    /\ b.deflated_size = U32(Len(wire_payload(s, p)))
    /\ b.crc = GetU32(s, p + wire_len(s, p) - 8)
    /\ b.inflated_size = GetU32(s, p + wire_len(s, p) - 4)

\* decompress_into planned a whole stream of valid blocks in its first call,
\* or raised while planning it
whole_stream_planned ==
    /\ valid_origin /\ entry = "decompress_into"
    /\ calls = 0 /\ chunk_len = Len(stream) /\ fed = Len(stream)
    /\ pc = "inflating" \/ stage = "closed"

\* read_block parsed every block of the stream as it is written
all_parsed_as_written ==
    /\ exc = ""
    /\ Len(blocks) = Len(block_starts(stream, 0))
    /\ \A k \in 1..Len(blocks) :
          parsed_as_written(stream, block_starts(stream, 0)[k], blocks[k])

\* C12: a valid block with subfields other than "BC" in its extra area, of
\* any declared length and before or after "BC", is accepted, and parses
\* to the BSIZE, the payload range and the tailer values written in it.
C12_foreign_subfields ==
    whole_stream_planned => all_parsed_as_written

\* The same holds of the streams whose foreign subfields all declare a
\* length of 2, and of those without foreign subfields.
foreign_subfields_of_length_2 ==
    (whole_stream_planned /\ all_foreign_lengths(stream) \subseteq {2})
    => all_parsed_as_written

\* the cursor of a planner that is about to read the block at offset q
cursor_at(q) == [next_in |-> q, available_in |-> Len(src_buff) - q]

\* a planner of the inflate calls has scanned at least one block
scanned_some ==
    /\ stage \in {"read", "closed"} /\ entry \in Entries
    /\ Len(plan.scanned) > 0

\* read_block on the block at offset q leaves the cursor where it was or
\* 1 + BSIZE bytes further, past a block it parsed
atomic_parse_at(q) ==
    \/ read_block(src_buff, cursor_at(q)).src = cursor_at(q)
    \/ /\ read_block(src_buff, cursor_at(q)).err = BGZIP_OK
       /\ read_block(src_buff, cursor_at(q)).src
            = cursor_at(q + 1 + read_block(src_buff,
                                           cursor_at(q)).block.block_size)

\* C13: every call of read_block leaves the cursor either advanced by
\* exactly BSIZE + 1 bytes, the block parsed, or as it was before the call,
\* also when it answers BGZIP_INSUFFICIENT_BYTES in the subfields, the
\* payload or the tailer.
C13_atomic_parse ==
    scanned_some
    => \A k \in 1..Len(plan.scanned) : atomic_parse_at(plan.scanned[k])

\* What holds: a call that parses the block advances the cursor by exactly
\* BSIZE + 1 bytes, and a call that finds fewer than 12 bytes leaves it
\* where it was.
parse_advance ==
    scanned_some
    => \A k \in 1..Len(plan.scanned) :
          /\ read_block(src_buff, cursor_at(plan.scanned[k])).err = BGZIP_OK
                => atomic_parse_at(plan.scanned[k])
          /\ Len(src_buff) - plan.scanned[k] < sizeof_BlockHeader
                => atomic_parse_at(plan.scanned[k])

\* the bytes from offset q on hold the whole block that starts there: its
\* header, its extra area, and the 1 + BSIZE bytes its BC subfield declares
covers_block(q) ==
    /\ Len(src_buff) - q >= sizeof_BlockHeader
    /\ Len(src_buff) - q >= sizeof_BlockHeader + wire_extra_len(src_buff, q)
                              + sizeof_BlockTailer
    /\ wire_len(src_buff, q) > 1
    /\ Len(src_buff) - q >= wire_len(src_buff, q)

insufficient_at(q) ==
    read_block(src_buff, cursor_at(q)).err = BGZIP_INSUFFICIENT_BYTES

\* C14: when at least BSIZE + 1 bytes are available from the start of a
\* block, read_block parses the block or fails with a fatal error and never
\* answers BGZIP_INSUFFICIENT_BYTES, also when BSIZE + 1 is less than
\* 12 + extra_len + 8 and when the subfield lengths do not add up.
C14_insufficient_only_if_short ==
    scanned_some
    => \A k \in 1..Len(plan.scanned) :
          covers_block(plan.scanned[k]) => ~insufficient_at(plan.scanned[k])

\* What holds: for the blocks compress_to_stream wrote, read_block answers
\* BGZIP_INSUFFICIENT_BYTES only when the block is not all there.
insufficient_only_if_short_of_handle ==
    (scanned_some /\ origin = "handle")
    => \A k \in 1..Len(plan.scanned) :
          covers_block(plan.scanned[k]) => ~insufficient_at(plan.scanned[k])

\* the block with the short block size is all there and is not parsed
short_bsize_insufficient ==
    /\ scanned_some /\ origin = "crafted"
    /\ wire_len(src_buff, 0) = ShortBSize + 1
    /\ covers_block(0) /\ insufficient_at(0)

\* the block with a subfield of length 0 is all there and is not parsed
foreign_subfield_insufficient ==
    /\ scanned_some /\ origin = "fixture"
    /\ 0 \in all_foreign_lengths(stream)
    /\ covers_block(0) /\ insufficient_at(0)

\* the subfields of s from q on end exactly at end, and one of them is "BC"
\* (seen_bc: one of those before q is)
RECURSIVE extra_area_closes(_, _, _, _)
extra_area_closes(s, q, end, seen_bc) ==
    IF q = end THEN seen_bc
    ELSE IF q + sizeof_BlockHeaderSubfield > end THEN FALSE
    ELSE extra_area_closes(s, q + sizeof_BlockHeaderSubfield
                                 + GetU16(s, q + 2), end,
                           seen_bc \/ (s[q + 1] = 66 /\ s[q + 2] = 67))

\* the offset at which the planner stopped scanning
last_scanned == plan.scanned[Len(plan.scanned)]

\* the header at offset q has the magic, its extra area is all there, and
\* the extra area has no BC subfield or its subfields do not end where the
\* extra area ends
bad_extra_area(q) ==
    /\ Len(src_buff) - q >= sizeof_BlockHeader
    /\ magic_ok(src_buff, q)
    /\ Len(src_buff) - q >= sizeof_BlockHeader + wire_extra_len(src_buff, q)
    /\ ~extra_area_closes(src_buff, q + sizeof_BlockHeader,
                          q + sizeof_BlockHeader
                            + wire_extra_len(src_buff, q), FALSE)

\* C15: a header with the magic but without a BC subfield in its extra
\* area, or whose subfields do not consume the extra length exactly, makes
\* the inflate call fail with BGZIPMalformedHeaderException and no other
\* error.
C15_bad_extra_area ==
    (scanned_some /\ bad_extra_area(last_scanned))
    => exc = "BGZIPMalformedHeaderException"

\* the extra area of the header at offset q begins with a BC subfield
\* whose declared length is not 2, and that many bytes follow it
bad_bc_length(q) ==
    /\ Len(src_buff) - q >= sizeof_BlockHeader + sizeof_BlockHeaderSubfield
    /\ Len(src_buff) - q >= sizeof_BlockHeader + sizeof_BlockHeaderSubfield
                              + GetU16(src_buff, q + sizeof_BlockHeader + 2)
    /\ magic_ok(src_buff, q)
    /\ wire_extra_len(src_buff, q) >= sizeof_BlockHeaderSubfield
    /\ src_buff[q + sizeof_BlockHeader + 1] = 66
    /\ src_buff[q + sizeof_BlockHeader + 2] = 67
    /\ GetU16(src_buff, q + sizeof_BlockHeader + 2) # 2

\* What holds: a BC subfield whose declared length is not 2, with that many
\* bytes after it, makes the call fail with BGZIPMalformedHeaderException.
bad_bc_length_malformed ==
    (scanned_some /\ bad_bc_length(last_scanned))
    => exc = "BGZIPMalformedHeaderException"

\* a header without a BC subfield ended the call with BGZIPException
no_bc_other_error ==
    /\ scanned_some /\ bad_extra_area(last_scanned)
    /\ read_block(src_buff, cursor_at(last_scanned)).err
         = BGZIP_BLOCK_SIZE_NEGATIVE
    /\ exc = "BGZIPException"

\* an extra area that does not close ended the call without an error
bad_extra_area_no_error ==
    /\ scanned_some /\ bad_extra_area(last_scanned)
    /\ insufficient_at(last_scanned)
    /\ exc = ""

\* a BC subfield of another length ended the call with the header error
bad_bc_length_reached ==
    /\ scanned_some /\ bad_bc_length(last_scanned)
    /\ exc = "BGZIPMalformedHeaderException"

\* the blocks of the batch that inflate_block answers an error for
failing == { i \in 1..Len(blocks) :
               inflate_block(src_buff, blocks[i]).err # BGZIP_OK }

lowest_failing == CHOOSE i \in failing : \A j \in failing : i <= j

\* decompress_into raised the error of one of its workers
execution_failed ==
    /\ stage = "closed" /\ entry = "decompress_into"
    /\ exc = "BGZIPException" /\ plan.exc = ""

\* C16: when several blocks of a batch fail in the parallel loop, the error
\* raised is that of the failing block with the lowest index, whatever the
\* order in which the workers ran.
C16_lowest_index_error ==
    execution_failed
    => first_err = inflate_block(src_buff, blocks[lowest_failing]).err

\* What holds: the error raised is the error of one of the failing blocks,
\* and with one thread that of the first one.
error_of_a_failing_block ==
    execution_failed
    => /\ \E i \in failing :
             first_err = inflate_block(src_buff, blocks[i]).err
       /\ num_threads = 1
             => first_err = inflate_block(src_buff,
                                          blocks[lowest_failing]).err

\* two blocks fail with different errors and that of the second is raised
later_error_raised ==
    /\ execution_failed
    /\ Cardinality(failing) = 2
    /\ first_err = BGZIP_ZLIB_ERROR
    /\ inflate_block(src_buff, blocks[lowest_failing]).err
         = BGZIP_CRC_MISMATCH

\* the sum of the declared inflated sizes of the blocks bs
RECURSIVE inflated_total(_)
inflated_total(bs) ==
    IF bs = <<>> THEN 0
    ELSE U32Val(bs[1].inflated_size) + inflated_total(Tail(bs))

\* decompress_into returned normally
into_returned == returned /\ entry = "decompress_into"

\* the destination grew by the inflated sizes of the blocks of the batch
grown_by_batch ==
    DLen(dst_buff) = DLen(dst_before) + inflated_total(blocks)

\* C17: when decompress_into fails with an execution error, the
\* destination bytearray is not extended and holds no byte of the failed
\* batch; when it returns normally, the destination has grown by exactly
\* the sum of the inflated sizes of the blocks counted in bytes_read.
C17_all_or_nothing ==
    /\ execution_failed => dst_buff = dst_before
    /\ into_returned => grown_by_batch

\* What holds: a normal return leaves the destination grown by the batch,
\* and a failed call leaves what the destination held before in place.
grown_on_return ==
    /\ into_returned => grown_by_batch
    /\ execution_failed
          => DTake(dst_buff, DLen(dst_before)) = dst_before

\* a failed call left the destination extended by the whole batch, with
\* bytes of a block of the batch in it
extended_on_failure ==
    /\ execution_failed /\ origin = "damaged"
    /\ DLen(dst_buff) = DLen(dst_before) + inflated_total(blocks)
    /\ DLen(dst_buff) > DLen(dst_before)
    /\ \E i \in 1..Len(blocks) :
          /\ inflate_block(src_buff, blocks[i]).err = BGZIP_OK
          /\ DSub(dst_buff, blocks[i].next_out,
                  U32Val(blocks[i].inflated_size))
               = inflate_block(src_buff, blocks[i]).out

\* a normal return after a batch of at least one block
returned_a_batch == into_returned /\ Len(blocks) > 0 /\ grown_by_batch

\* the worker of block i stores no more bytes at next_out than the block's
\* declared inflated size
inflates_inside_slice(i) ==
    ~U32Lt(blocks[i].inflated_size,
           U32(DLen(inflate_block(src_buff, blocks[i]).out)))

\* every inflate worker of the batch writes inside its slice, and none
\* wrote outside the destination
inflate_workers_inside ==
    /\ pc = "inflating"
          => \A i \in 1..Len(blocks) : inflates_inside_slice(i)
    /\ ~oob

\* every deflate worker that ran stored no more bytes than its output
\* buffer has
deflate_workers_inside ==
    \A i \in size_done : size_blocks[i].stored <= size_blocks[i].avail_out

\* C18: each worker writes only inside the output slice planned for its own
\* block: an inflate worker never past next_out + the declared inflated
\* size, a deflate worker never past the end of its output buffer.
C18_writes_inside_slice ==
    inflate_workers_inside /\ deflate_workers_inside

\* What holds: the inflate workers of the blocks compress_to_stream wrote
\* write inside their slices.
inflate_workers_inside_of_handle ==
    origin = "handle" => inflate_workers_inside

\* a worker inflated more bytes than its block declares and wrote them
\* past the end of the destination
inflated_past_slice ==
    /\ pc = "inflating" /\ oob
    /\ \E i \in done : ~inflates_inside_slice(i)

\* a deflate worker stored more bytes than its output buffer has
deflated_past_buffer ==
    \E i \in size_done :
       /\ size_blocks[i].stored > size_blocks[i].avail_out
       /\ size_blocks[i].stored <= zst_avail_out

\* an inflate batch has been planned and its workers have not all ended
planned_batch == pc = "inflating" /\ entry \in Entries

\* where the slice of block i ends
slice_end(i) == advance_out(blocks[i].next_out, blocks[i].inflated_size)

\* the slices follow one another from the destination offset on
slices_successive ==
    /\ Len(blocks) > 0 => blocks[1].next_out = offset
    /\ \A i \in 1..(Len(blocks) - 1) : blocks[i + 1].next_out = slice_end(i)

\* the last slice ends inside the destination
slices_inside ==
    Len(blocks) > 0 => slice_end(Len(blocks)) <= DLen(dst_buff)

\* C19: in every planned inflate batch block 0 starts at the destination
\* offset, block i + 1 starts where block i ends, each slice is as long as
\* the block's declared inflated size, and the last slice ends inside the
\* destination.
C19_slices == planned_batch => (slices_successive /\ slices_inside)

\* What holds: the slices follow one another from the offset on, and they
\* end inside the destination unless the sum of the declared inflated
\* sizes has wrapped around.
slices_without_wrap ==
    planned_batch
    => /\ slices_successive
       /\ origin # "crafted" => slices_inside

\* a batch of two blocks whose second slice ends outside the destination
slice_outside ==
    /\ planned_batch /\ Len(blocks) = 2
    /\ slices_successive
    /\ slice_end(2) > DLen(dst_buff)

\* a batch of two blocks laid out one after the other, inside
two_slices_inside ==
    /\ planned_batch /\ Len(blocks) = 2
    /\ slices_successive /\ slices_inside
    /\ blocks[2].next_out > blocks[1].next_out

\* compress_to_stream has been called
stream_called == entry = "compress_to_stream"

\* the number of windows of the input
windows_of_input == number_of_chunks_of(DLen(input_buff))

\* C20: one compress_to_stream call deflates min(number of windows, number
\* of scratch buffers supplied, NUMBER_OF_BLOCKS) windows: it reads no
\* scratch buffer beyond the list, and at a cap it stops planning and does
\* not fail.
C20_capped ==
    stream_called
    => /\ exc = ""
       /\ Len(blocks) = Min(Min(windows_of_input, Len(scratch_buffers)),
                            NUMBER_OF_BLOCKS)

\* What holds: with at most NUMBER_OF_BLOCKS windows and a scratch buffer
\* for each, every window is planned and the call does not fail; with more
\* windows it raises Exception and plans nothing.
all_windows_or_exception ==
    /\ (stream_called /\ accepted_input)
          => /\ exc = ""
             /\ Len(blocks) = windows_of_input
    /\ (stream_called /\ windows_of_input > NUMBER_OF_BLOCKS)
          => /\ exc = "Exception"
             /\ blocks = <<>>

\* more windows than NUMBER_OF_BLOCKS: the call failed
over_bound_failed ==
    /\ stream_called /\ windows_of_input > NUMBER_OF_BLOCKS
    /\ stage = "closed" /\ exc = "Exception"

\* fewer scratch buffers than windows: the call read beyond the list
beyond_list ==
    /\ stream_called
    /\ windows_of_input <= NUMBER_OF_BLOCKS
    /\ Len(scratch_buffers) < windows_of_input
    /\ stage = "closed" /\ exc \in NullBufferOutcomes

\* the unsigned int a is at most 65536
at_most_64k(a) == a[1] = 0 \/ a = <<1, 0>>

\* adding the declared inflated sizes of bs to acc one after the other, no
\* 32-bit sum comes out smaller than what it was before the addition
RECURSIVE sums_without_wrap(_, _)
sums_without_wrap(bs, acc) ==
    IF bs = <<>> THEN TRUE
    ELSE /\ ~U32Lt(U32Add(acc, bs[1].inflated_size), acc)
         /\ sums_without_wrap(Tail(bs), U32Add(acc, bs[1].inflated_size))

\* the running totals of the planner of the batch did not wrap: the
\* unsigned bytes_inflated and avail_out of decompress_into_2, the signed
\* inflated_size of decompress_into
totals_without_wrap ==
    /\ sums_without_wrap(blocks, U32Zero)
    /\ entry = "decompress_into" => ~IsNegative32(plan.inflated_size)
    /\ entry = "decompress_into_2" => offset <= DLen(dst_buff)

\* C21: every block admitted to an inflate batch declares an inflated size
\* of at most 65536, whatever the 32 bits of its tailer are, and the
\* running totals of the planner never wrap around.
C21_declared_size_bound ==
    planned_batch
    => /\ \A i \in 1..Len(blocks) : at_most_64k(blocks[i].inflated_size)
       /\ totals_without_wrap

\* What holds: the blocks compress_to_stream wrote are admitted with
\* declared sizes of at most 65280 and totals that do not wrap.
declared_size_bound_of_handle ==
    (planned_batch /\ origin = "handle")
    => /\ \A i \in 1..Len(blocks) :
             /\ blocks[i].inflated_size[1] = 0
             /\ blocks[i].inflated_size[2] <= block_data_inflated_size
       /\ totals_without_wrap

\* decompress_into_2 admitted a block that declares 2^32 - 1 bytes into a
\* destination of 3 bytes, its sum of the declared sizes having wrapped
oversize_admitted ==
    /\ planned_2
    /\ DLen(dst_buff) - offset = 3
    /\ Len(blocks) = 2
    /\ blocks[2].inflated_size = <<65535, 65535>>
    /\ ~sums_without_wrap(blocks, U32Zero)
    /\ plan.inflated_size = U32Zero

\* a block that declares more than 65536 bytes was admitted without any
\* total wrapping
oversize_admitted_without_wrap ==
    /\ planned_batch
    /\ totals_without_wrap
    /\ \E i \in 1..Len(blocks) : ~at_most_64k(blocks[i].inflated_size)

\* compress_to_stream, bytes: nothing is in the handle while the workers
\* run, and after the call the handle holds the blocks of the windows in
\* window order, each once
written_after_join ==
    /\ pc = "deflating" => handle = <<>>
    /\ stage = "written"
          => /\ done = 1..Len(blocks)
             /\ handle = handle_in_order(0)

\* compress_to_stream, lengths: nothing is written while the workers run
\* or when one of them failed, and one slice per window is written
size_written_after_join ==
    /\ size_pc \in {"deflating", "raised"} => size_ret = <<>>
    /\ size_pc = "returned"
          => /\ size_done = 1..Len(size_blocks)
             /\ Len(size_ret) = Len(size_blocks)

\* every slice written is as long as the block size reported for it
slices_exact ==
    (size_pc = "returned" /\ size_entry = "compress_to_stream")
    => \A i \in 1..Len(size_ret) : size_ret[i] = size_blocks[i].block_size

\* C22: compress_to_stream writes to the handle only after every deflate
\* worker of the batch has ended; the handle receives the blocks in window
\* order, each once and cut to exactly its reported block size; when a
\* worker fails, nothing of the batch is written.
C22_write_after_join ==
    /\ written_after_join
    /\ size_written_after_join
    /\ slices_exact

\* What holds: all of it but the length of the slices.
write_after_join_in_order ==
    written_after_join /\ size_written_after_join

\* a block longer than its scratch buffer was written cut short
slice_cut_short ==
    /\ size_pc = "returned" /\ size_entry = "compress_to_stream"
    /\ \E i \in 1..Len(size_ret) :
          /\ size_blocks[i].stored > size_blocks[i].avail_out
          /\ size_ret[i] = size_blocks[i].avail_out
          /\ size_ret[i] < size_blocks[i].block_size

\* a worker of compress_to_stream failed and nothing was written
failed_nothing_written ==
    /\ size_pc = "raised" /\ size_entry = "compress_to_stream"
    /\ size_exc = "BGZIPException"
    /\ Len(size_blocks) > 1
    /\ size_ret = <<>>

\* four blocks in the handle, in window order
four_blocks_written ==
    /\ stage = "written" /\ Len(blocks) = 4
    /\ handle = handle_in_order(0)
    /\ Len(handle) = blocks[1].block_size + blocks[2].block_size
                       + blocks[3].block_size + blocks[4].block_size

=============================================================================
